---- MODULE Spec2Model ----
(***************************************************************************)
(* A model of verify_release.py: the release-candidate verification        *)
(* pipeline (listing, download, digest check, signature check with the     *)
(* key-bundle fallback, archive inspection, report) and its cleanup.       *)
(*                                                                         *)
(* Text is a sequence of one-character strings.  A URL is a sequence of    *)
(* tokens: the token "/" and atoms that hold no "/" (a path segment is the *)
(* sequence of atoms between two "/").  File names are strings.  A file's  *)
(* content is the name of a blob; TextOf and TarOf give a blob's bytes as  *)
(* text and as a tar archive.                                              *)
(***************************************************************************)
EXTENDS Integers, Sequences, FiniteSets, TLC

VARIABLES
    fs,             \* the working directory: name -> entry
    mode,           \* "idle", or the kind of run in progress
    pc,             \* position of main() inside a verification run
    url,            \* main's url (argv[1] with trailing "/" stripped)
    files,          \* main's files: the links found in the listing
    i,              \* index of the download loop in files
    archives,       \* main's archives
    j,              \* index of the verification loop in archives
    after_dl,       \* the names present when the download loop ended
    sha_ok,         \* verify_hashes' result for the archive being verified
    gpg_ok,         \* verify_gpg's result for the archive being verified
    results,        \* main's results
    ri,             \* index of the report loop in results
    report,         \* the marks printed for each record
    verified_files, \* main's verified_files
    vote,           \* the lines of the vote response, one per named record
    exit_code,      \* exit status of the last run (-1 while it runs)
    net,            \* what this run has requested over the network (a set)
    removed,        \* cleanup's removed list (as a set)
    log,            \* the runs completed so far that reached the working directory
    h_in, h_out,    \* one digest comparison: its inputs and its verdict
    u_in, u_out     \* one key-bundle URL derivation: staging URL and result

vars == <<fs, mode, pc, url, files, i, archives, j, after_dl, sha_ok, gpg_ok,
          results, ri, report, verified_files, vote, exit_code, net, removed, log,
          h_in, h_out, u_in, u_out>>

run_vars == <<fs, mode, pc, url, files, i, archives, j, after_dl, sha_ok, gpg_ok,
              results, ri, report, verified_files, vote, exit_code, net, removed, log>>

(***************************************************************************)
(* Bounds of the model.                                                    *)
(***************************************************************************)
\* longest digest-sidecar text enumerated
MaxLen == 5
\* longest staging URL enumerated, in tokens after its head
MaxUrlLen == 6
\* program runs in one behaviour
MaxRuns == 3
\* of these, the runs that find files in the listing
MaxVerify == 1

(***************************************************************************)
(* Text helpers.                                                           *)
(***************************************************************************)
\* the sequences over S of length at most n
SeqsUpTo(S, n) == UNION {[1..m -> S] : m \in 0..n}

Rep(c, n) == [k \in 1..n |-> c]

HexDigits == {"0", "1", "2", "3", "4", "5", "6", "7", "8", "9",
              "a", "b", "c", "d", "e", "f", "A", "B", "C", "D", "E", "F"}

\* the pattern [a-fA-F0-9]
IsHex(c) == c \in HexDigits

Whitespace == {" ", "\n", "\t"}

\* str.lower() on one character
LowerChar(c) ==
    CASE c = "A" -> "a" [] c = "B" -> "b" [] c = "C" -> "c"
      [] c = "D" -> "d" [] c = "E" -> "e" [] c = "F" -> "f"
      [] OTHER -> c

Lower(s) == [k \in 1..Len(s) |-> LowerChar(s[k])]

\* str.strip(): leading and trailing whitespace removed
RECURSIVE LStrip(_)
LStrip(s) == IF s # <<>> /\ Head(s) \in Whitespace THEN LStrip(Tail(s)) ELSE s

RECURSIVE RStripWs(_)
RStripWs(s) ==
    IF s # <<>> /\ s[Len(s)] \in Whitespace THEN RStripWs(SubSeq(s, 1, Len(s) - 1)) ELSE s

Strip(s) == RStripWs(LStrip(s))

\* index of the first occurrence of c in s, 0 when there is none
RECURSIVE IndexFrom(_, _, _)
IndexFrom(s, c, k) ==
    IF k > Len(s) THEN 0 ELSE IF s[k] = c THEN k ELSE IndexFrom(s, c, k + 1)

Index(s, c) == IndexFrom(s, c, 1)

(***************************************************************************)
(* verify_hashes: the comparison made for one digest sidecar.              *)
(***************************************************************************)
\* content.split(':', 1)[1] when there is a colon, else content
HashPart(content) ==
    IF Index(content, ":") # 0
    THEN SubSeq(content, Index(content, ":") + 1, Len(content))
    ELSE content

\* re.findall(r'[a-fA-F0-9]', hash_part)
HexChars(hash_part) == SelectSeq(hash_part, IsHex)

\* int(hash_num) // 4 if hash_num != '1' else 40
ExpectedLength(hash_num) == IF hash_num # 1 THEN hash_num \div 4 ELSE 40

\* mutant: the hexadecimal characters are taken from the whole content, the
\* part before the colon included
HashMatchesWholeContent(actual, text, hash_num) ==
    LET hex_chars == HexChars(Strip(text))
        expected_length == ExpectedLength(hash_num)
    IN  /\ Len(hex_chars) >= expected_length
        /\ actual = Lower(SubSeq(hex_chars, 1, expected_length))

\* lines 57-78: the verdict once the actual digest is known
HashMatches(actual, text, hash_num) ==
    LET content == Strip(text)
        hex_chars == HexChars(HashPart(content))
        expected_length == ExpectedLength(hash_num)
    IN  IF Len(hex_chars) >= expected_length
        THEN actual = Lower(SubSeq(hex_chars, 1, expected_length))
        ELSE FALSE

\* The digest command's outcome: it raised, or ended with a return code and,
\* when that is 0, printed the digest as the first word of its output.
ToolRaised == [raised |-> TRUE, rc |-> 1, digest |-> <<>>]
ToolFailed == [raised |-> FALSE, rc |-> 1, digest |-> <<>>]
ToolPrinted(d) == [raised |-> FALSE, rc |-> 0, digest |-> d]

\* lines 35-80 for one hash file: readable says whether open()/read() succeed
HashVerdict(tool, readable, text, hash_num) ==
    IF tool.raised THEN FALSE
    ELSE IF tool.rc # 0 THEN FALSE
    ELSE IF ~readable THEN FALSE
    ELSE HashMatches(Lower(tool.digest), text, hash_num)

(***************************************************************************)
(* verify_gpg: the key-bundle URL derived from the staging URL.            *)
(***************************************************************************)
Slash == "/"

\* str.rstrip('/')
RECURSIVE RStrip(_)
RStrip(s) ==
    IF s # <<>> /\ s[Len(s)] = Slash THEN RStrip(SubSeq(s, 1, Len(s) - 1)) ELSE s

\* str.split('/'): the segments between the "/" tokens, empty ones included
RECURSIVE SplitFrom(_, _, _, _)
SplitFrom(s, k, cur, acc) ==
    IF k > Len(s) THEN Append(acc, cur)
    ELSE IF s[k] = Slash THEN SplitFrom(s, k + 1, <<>>, Append(acc, cur))
    ELSE SplitFrom(s, k + 1, Append(cur, s[k]), acc)

Split(s) == SplitFrom(s, 1, <<>>, <<>>)

InParts(seg, parts) == \E k \in 1..Len(parts) : parts[k] = seg

\* list.index(seg), counted from 1; seg is in parts
IndexOfPart(seg, parts) ==
    CHOOSE k \in 1..Len(parts) :
        parts[k] = seg /\ \A m \in 1..(k - 1) : parts[m] # seg

Downloads == <<"https:", Slash, Slash, "downloads.apache.org">>
IncubatorKeys(project) == Downloads \o <<Slash, "incubator", Slash>> \o project \o <<Slash, "KEYS">>
TopLevelKeys(project) == Downloads \o <<Slash>> \o project \o <<Slash, "KEYS">>

NoKeysUrl == [derived |-> FALSE, keys_url |-> <<>>]

\* mutant: the incubator test looks at the segment after dev only, and takes
\* the project from the segment after dev in both branches
KeysUrlIgnoresIncubator(base_url) ==
    LET url_parts == Split(base_url)
    IN  IF InParts(<<"dist">>, url_parts) /\ InParts(<<"dev">>, url_parts)
        THEN LET dev_index == IndexOfPart(<<"dev">>, url_parts)
             IN  IF dev_index + 1 <= Len(url_parts)
                 THEN [derived |-> TRUE, keys_url |-> TopLevelKeys(url_parts[dev_index + 1])]
                 ELSE NoKeysUrl
        ELSE NoKeysUrl

\* lines 115-126
KeysUrl(base_url) ==
    LET url_parts == Split(base_url)
    IN  IF InParts(<<"dist">>, url_parts) /\ InParts(<<"dev">>, url_parts)
        THEN LET dev_index == IndexOfPart(<<"dev">>, url_parts)
             IN  IF dev_index + 1 <= Len(url_parts)
                 THEN IF /\ url_parts[dev_index + 1] = <<"incubator">>
                         /\ dev_index + 2 <= Len(url_parts)
                      THEN [derived |-> TRUE,
                            keys_url |-> IncubatorKeys(url_parts[dev_index + 2])]
                      ELSE [derived |-> TRUE,
                            keys_url |-> TopLevelKeys(url_parts[dev_index + 1])]
                 ELSE NoKeysUrl
        ELSE NoKeysUrl

(***************************************************************************)
(* File names.  A name is a string; the names the patterns of the program  *)
(* match are built from their parts, so that "ends with .tgz" is decided   *)
(* by construction.                                                        *)
(***************************************************************************)
Stems == {"x", "y"}
HashNums == {8, 12}

TgzNames == {s \o ".tgz" : s \in Stems}
TarGzNames == {s \o ".tar.gz" : s \in Stems}

\* str.endswith(('.tgz', '.tar.gz'))
ArchiveNames == TgzNames \cup TarGzNames

\* "sha" followed by the digits of n: the hash_type of a hash file
HashType(n) == "sha" \o ToString(n)

\* f"{filename}.sha<n>" and f"{filename}.asc"
ShaName(filename, n) == filename \o "." \o HashType(n)
AscName(filename) == filename \o ".asc"

ShaNames == {ShaName(a, n) : a \in ArchiveNames, n \in HashNums}
AscNames == {AscName(a) : a \in ArchiveNames}

\* names an archive member can be extracted to, beside the names above
DirNames == {"d1", "d2"}
Incidental == <<"index.html", "robots.txt", "KEYS", "KEYS.bak">>
IncidentalNames == {Incidental[k] : k \in 1..Len(Incidental)}

FsNames == ArchiveNames \cup ShaNames \cup AscNames \cup DirNames \cup IncidentalNames

\* files looked for inside an extracted top-level directory
LicenseNames == <<"LICENSE", "LICENSE.txt">>
NoticeNames == <<"NOTICE", "NOTICE.txt">>
SubNames == {"LICENSE", "LICENSE.txt", "NOTICE", "NOTICE.txt"}

(***************************************************************************)
(* The working directory.  An entry is absent, a regular file holding a    *)
(* blob, or a directory holding files (sub: name -> blob, "" when absent). *)
(***************************************************************************)
NoSub == [s \in SubNames |-> ""]
Absent == [kind |-> "none", data |-> "", sub |-> NoSub]
File(blob) == [kind |-> "file", data |-> blob, sub |-> NoSub]
Dir(sub) == [kind |-> "dir", data |-> "", sub |-> sub]

EmptyDir == [n \in FsNames |-> Absent]

\* Path(name).exists()
Exists(f, name) == f[name].kind # "none"
\* Path(name).is_dir()
IsDir(f, name) == f[name].kind = "dir"

(***************************************************************************)
(* Blobs.  An archive blob is described by what tarfile finds in it:       *)
(* ok (tarfile.open succeeds), members (in order; top is the first path    *)
(* segment, sub the file under it or "" for a top-level file, outside a    *)
(* path that leaves the destination) and cut (the number of members that   *)
(* can be read before the stream ends; fewer than all in a truncated       *)
(* file).                                                                  *)
(***************************************************************************)
Member(top, sub, data) == [top |-> top, sub |-> sub, data |-> data, outside |-> FALSE]
Escaping(top) == [top |-> top, sub |-> "", data |-> "L", outside |-> TRUE]

Tar(members) == [ok |-> TRUE, members |-> members, cut |-> Len(members)]
Truncated(members, cut) == [ok |-> TRUE, members |-> members, cut |-> cut]
NotTar == [ok |-> FALSE, members |-> <<>>, cut |-> 0]

TarOf(blob) ==
    CASE blob = "T_good" -> Tar(<<Member("d1", "LICENSE", "L"), Member("d1", "NOTICE", "N_year")>>)
      [] blob = "T_old"  -> Tar(<<Member("d2", "LICENSE.txt", "L"), Member("d2", "NOTICE.txt", "N_old")>>)
      [] blob = "T_bare" -> Tar(<<Member("d1", "NOTICE", "N_empty")>>)
      [] blob = "T_none" -> Tar(<<>>)
      [] blob = "T_two"  -> Tar(<<Member("d1", "LICENSE", "L"), Member("d2", "NOTICE", "N_year")>>)
      [] blob = "T_clob" -> Tar(<<Member("d1", "LICENSE", "L"), Member("y.tar.gz", "", "T_old"),
                                  Member("x.tgz.asc", "", "SIG2"),
                                  Member("y.tar.gz.asc", "", "SIG2")>>)
      [] blob = "T_dir"  -> Tar(<<Member("d1", "LICENSE", "L"), Member("y.tar.gz", "LICENSE", "L")>>)
      [] blob = "T_trav" -> Tar(<<Member("d1", "LICENSE", "L"), Escaping("..")>>)
      [] blob = "T_cut"  -> Truncated(<<Member("d1", "LICENSE", "L"), Member("d1", "NOTICE", "N_year")>>, 1)
      [] OTHER -> NotTar

\* the text of a blob, as open(..., 'r').read() returns it
TextOf(blob) ==
    CASE blob = "S_a" -> <<"x", ":", " ", "A", "a", " ", "a", "\n">>
      [] blob = "S_b" -> <<"b", "b", "b">>
      [] blob = "S_short" -> <<"a">>
      [] OTHER -> <<>>

\* os.stat().st_size > 0
NonEmpty(blob) == blob \notin {"", "N_empty", "S_empty"}
\* the current year occurs in the text
HasCurrentYear(blob) == blob = "N_year"
\* open(path, 'r').read() succeeds (the bytes decode)
ReadableText(blob) == blob # "N_bin"

\* what the digest command prints for a file holding the blob: a stand-in
\* for the digest function, which the program does not compute itself
DigestOf(blob, hash_num) ==
    IF blob \in {"T_good", "T_none", "T_two", "T_clob", "T_dir"}
    THEN Rep("a", ExpectedLength(hash_num))
    ELSE Rep("b", ExpectedLength(hash_num))

(***************************************************************************)
(* extract_and_check_license                                               *)
(***************************************************************************)
\* tarfile's extraction of one member into the working directory f; ok is
\* FALSE when it raises (the 'data' filter refuses a path outside the
\* destination; a file cannot be written over a directory, nor a directory
\* made where a file is)
ExtractMember(f, m) ==
    IF m.outside THEN [fs |-> f, ok |-> FALSE]
    ELSE IF m.sub = ""
    THEN IF IsDir(f, m.top) THEN [fs |-> f, ok |-> FALSE]
         ELSE [fs |-> [f EXCEPT ![m.top] = File(m.data)], ok |-> TRUE]
    ELSE IF f[m.top].kind = "file" THEN [fs |-> f, ok |-> FALSE]
         ELSE [fs |-> [f EXCEPT ![m.top] = Dir([f[m.top].sub EXCEPT ![m.sub] = m.data])],
               ok |-> TRUE]

\* tar.extractall(filter='data'): the members in order, up to the first one
\* that raises or to the end of a truncated stream
RECURSIVE ExtractAll(_, _, _)
ExtractAll(f, tar, k) ==
    IF k > Len(tar.members) THEN [fs |-> f, ok |-> TRUE]
    ELSE IF k > tar.cut THEN [fs |-> f, ok |-> FALSE]
    ELSE LET one == ExtractMember(f, tar.members[k])
         IN  IF one.ok THEN ExtractAll(one.fs, tar, k + 1) ELSE one

\* members[0].split('/')[0]
TopDir(tar) == tar.members[1].top

\* (top_path / name).exists()
SubExists(f, top, name) == IsDir(f, top) /\ f[top].sub[name] # ""

\* lines 163-169
HasLicense(f, top) == \E k \in 1..Len(LicenseNames) : SubExists(f, top, LicenseNames[k])

\* lines 172-177: the first of the names that exists with a size above 0
NoticeFound(f, top, k) == SubExists(f, top, NoticeNames[k]) /\ NonEmpty(f[top].sub[NoticeNames[k]])
HasNotice(f, top) == \E k \in 1..Len(NoticeNames) : NoticeFound(f, top, k)
NoticeBlob(f, top) ==
    LET k == CHOOSE n \in 1..Len(NoticeNames) :
                 NoticeFound(f, top, n) /\ \A m \in 1..(n - 1) : ~NoticeFound(f, top, m)
    IN  f[top].sub[NoticeNames[k]]

\* Python's True / False / None
Py(b) == IF b THEN "True" ELSE "False"

License(l, n, y) == [license |-> l, notice |-> n, notice_current_year |-> y]

\* mutant: an extraction that raises is reported like an archive with no members
ExtractionRaisedAsNone == License("None", "None", "None")

\* line 194: the except branch
ExtractionRaised == License("False", "False", "False")

\* line 157
NoMembers == License("None", "None", "None")

\* lines 159-191: the checks under the top-level directory
CheckLicense(f, top) ==
    License(Py(HasLicense(f, top)),
            Py(HasNotice(f, top)),
            Py(/\ HasNotice(f, top)
               /\ ReadableText(NoticeBlob(f, top))
               /\ HasCurrentYear(NoticeBlob(f, top))))

\* the whole function: the working directory it leaves and what it returns
extract_and_check_license(f, archive) ==
    IF f[archive].kind # "file" \/ ~TarOf(f[archive].data).ok
    THEN [fs |-> f, ret |-> ExtractionRaised]
    ELSE LET tar == TarOf(f[archive].data)
             done == ExtractAll(f, tar, 1)
         IN  IF ~done.ok THEN [fs |-> done.fs, ret |-> ExtractionRaised]
             ELSE IF tar.members = <<>> THEN [fs |-> done.fs, ret |-> NoMembers]
             ELSE [fs |-> done.fs, ret |-> CheckLicense(done.fs, TopDir(tar))]

(***************************************************************************)
(* cleanup                                                                 *)
(***************************************************************************)
\* tar.getnames() returns: the archive opens and its stream is whole
NamesReadable(f, archive) ==
    /\ f[archive].kind = "file"
    /\ TarOf(f[archive].data).ok
    /\ TarOf(f[archive].data).cut = Len(TarOf(f[archive].data).members)

\* lines 201-211: extracted_dirs
ExtractedDirs(f) ==
    {TopDir(TarOf(f[a].data)) :
        a \in {b \in ArchiveNames : NamesReadable(f, b) /\ TarOf(f[b].data).members # <<>>}}

\* lines 214-217: the directories removed
RemovedDirs(f) == {d \in ExtractedDirs(f) : IsDir(f, d)}

\* lines 220 and 226: the names unlinked, in this order; the order inside one
\* glob pattern is the directory's
UnlinkGroups ==
    <<TgzNames, TarGzNames, AscNames, ShaNames>>
        \o [g \in 1..Len(Incidental) |-> {Incidental[g]}]

Without(f, names) == [n \in FsNames |-> IF n \in names THEN Absent ELSE f[n]]

Present(f, names) == {n \in names : Exists(f, n)}

\* Path(file).unlink() raises on a directory: the first group holding one
RaisingGroups(f) == {g \in 1..Len(UnlinkGroups) : \E n \in UnlinkGroups[g] : IsDir(f, n)}
FirstRaising(f) == CHOOSE g \in RaisingGroups(f) : \A h \in RaisingGroups(f) : g <= h

GroupsBefore(f, g) == UNION {Present(f, UnlinkGroups[h]) : h \in 1..(g - 1)}

\* the runs cleanup() can make from working directory f: the directory it
\* leaves, its removed list, and whether an unlink raised (a traceback)
CleanupResults(f) ==
    LET f1 == Without(f, RemovedDirs(f))
    IN  IF RaisingGroups(f1) = {}
        THEN {[fs |-> Without(f1, GroupsBefore(f1, Len(UnlinkGroups) + 1)),
               removed |-> RemovedDirs(f) \cup GroupsBefore(f1, Len(UnlinkGroups) + 1),
               raised |-> FALSE]}
        ELSE LET g == FirstRaising(f1)
                 before == GroupsBefore(f1, g)
             IN  {[fs |-> Without(f1, before \cup some),
                   removed |-> RemovedDirs(f) \cup before \cup some,
                   raised |-> TRUE] :
                      some \in SUBSET {n \in UnlinkGroups[g] : f1[n].kind = "file"}}

(***************************************************************************)
(* What the environment supplies: command lines, listings, remote files.   *)
(***************************************************************************)
CleanupArg == <<"--cleanup">>
UrlIncubator == <<"https:", Slash, Slash, "dist.apache.org", Slash, "repos", Slash, "dist",
                  Slash, "dev", Slash, "incubator", Slash, "foo", Slash, "1.0", Slash>>
UrlElsewhere == <<"https:", Slash, Slash, "example.org", Slash, "stage", Slash>>

\* sys.argv[1:]
Argvs == {<<>>, <<CleanupArg>>, <<UrlIncubator>>, <<UrlElsewhere>>,
          <<UrlIncubator, CleanupArg>>}

\* the href values of the listing page, in page order
Htmls == {<<"../">>,
          <<"../", "x.tgz.asc", "x.tgz", "x.tgz.sha8", "x.tgz.sha12">>,
          <<"x.tgz", "KEYS", "y.tar.gz", "y.tar.gz">>}

\* line 259: the links that end in .tgz, .tar.gz, .sha<digits> or .asc
IsLink(href) == href \in ArchiveNames \cup ShaNames \cup AscNames
FindLinks(html) == SelectSeq(html, IsLink)

\* line 274
IsArchive(f) == f \in ArchiveNames

\* what the server can send for a name, and what an interrupted transfer
\* can leave behind
RemoteBlobs(filename) ==
    IF filename \in TgzNames
    THEN {"T_good", "T_none", "T_bad", "T_two", "T_clob", "T_dir", "T_trav"}
    ELSE IF filename \in TarGzNames THEN {"T_old", "T_bad"}
    ELSE IF filename \in ShaNames THEN {"S_a", "S_b"}
    ELSE IF filename \in AscNames THEN {"SIG"}
    ELSE {"K1", "K2"}

PartialBlobs(filename) == IF filename \in ArchiveNames THEN {"T_cut"} ELSE {}

\* download_file(url, filename) on working directory f: the directories it
\* can leave.  urlretrieve raises before the file is opened, writes it all,
\* or raises after a part is written.
download_file(f, filename) ==
    {f} \cup {[f EXCEPT ![filename] = File(b)] :
                 b \in RemoteBlobs(filename) \cup PartialBlobs(filename)}

(***************************************************************************)
(* main                                                                    *)
(***************************************************************************)
UsageExit == 1
\* mutant: a listing that cannot be fetched ends the run like a success
FetchErrorExitAsSuccess == UsageExit - 1
FetchErrorExit == 1
NoFilesExit == 1
TracebackExit == 1

\* line 239
IsCleanupArgv(argv) == Len(argv) = 1 /\ argv[1] = CleanupArg
\* line 243
IsUsageError(argv) == ~IsCleanupArgv(argv) /\ Len(argv) # 1

Idle == mode = "idle"
MayRun == Len(log) < MaxRuns

IsVerifyRun(kind) == kind = "verify"
MayVerify == MayRun /\ Len(SelectSeq(log, IsVerifyRun)) < MaxVerify

\* a new process: main's locals are fresh
FreshLocals ==
    /\ files' = <<>> /\ i' = 0 /\ archives' = <<>> /\ j' = 0 /\ after_dl' = {}
    /\ sha_ok' = <<>> /\ gpg_ok' = "None" /\ results' = <<>> /\ ri' = 0
    /\ report' = <<>> /\ verified_files' = <<>> /\ vote' = <<>>

pure_vars == <<h_in, h_out, u_in, u_out>>

\* lines 243-246
Usage ==
    /\ Idle
    /\ \E argv \in Argvs : IsUsageError(argv)
    /\ FreshLocals
    /\ url' = <<>> /\ net' = {} /\ removed' = {}
    /\ exit_code' = UsageExit
    /\ pc' = "done"
    /\ UNCHANGED <<fs, mode, log, pure_vars>>

\* lines 239-241 and cleanup()
Cleanup ==
    /\ Idle /\ MayRun
    /\ \E argv \in Argvs : IsCleanupArgv(argv)
    /\ FreshLocals
    /\ url' = <<>> /\ net' = {}
    /\ \E out \in CleanupResults(fs) :
          /\ fs' = out.fs
          /\ removed' = out.removed
          /\ exit_code' = IF out.raised THEN TracebackExit ELSE 0
    /\ pc' = "done"
    /\ log' = Append(log, "cleanup")
    /\ UNCHANGED <<mode, pure_vars>>

\* lines 248-263
FetchListing ==
    /\ Idle
    /\ \E argv \in Argvs :
          /\ ~IsCleanupArgv(argv) /\ ~IsUsageError(argv)
          /\ url' = RStrip(argv[1])
    /\ net' = {"LISTING"} /\ removed' = {}
    /\ archives' = <<>> /\ j' = 0 /\ after_dl' = {}
    /\ sha_ok' = <<>> /\ gpg_ok' = "None" /\ results' = <<>> /\ ri' = 0
    /\ report' = <<>> /\ verified_files' = <<>> /\ vote' = <<>>
    /\ \/ /\ files' = <<>> /\ i' = 0              \* urlopen raises
          /\ exit_code' = FetchErrorExit
          /\ pc' = "done" /\ mode' = "idle"
          /\ log' = log
       \/ \E html \in Htmls :
             /\ files' = FindLinks(html)
             /\ IF FindLinks(html) = <<>>
                THEN /\ i' = 0
                     /\ exit_code' = NoFilesExit
                     /\ pc' = "done" /\ mode' = "idle"
                     /\ log' = log
                ELSE /\ MayVerify
                     /\ i' = 1
                     /\ exit_code' = -1
                     /\ pc' = "download" /\ mode' = "verify"
                     /\ log' = log
    /\ UNCHANGED <<fs, pure_vars>>

\* lines 266-271, one file
Download ==
    /\ mode = "verify" /\ pc = "download" /\ i <= Len(files)
    /\ IF Exists(fs, files[i])
       THEN UNCHANGED <<fs, net>>
       ELSE /\ net' = net \cup {files[i]}
            /\ fs' \in download_file(fs, files[i])
    /\ i' = i + 1
    /\ UNCHANGED <<mode, pc, url, files, archives, j, after_dl, sha_ok, gpg_ok, results, ri,
                   report, verified_files, vote, exit_code, removed, log, pure_vars>>

\* lines 274-275
DownloadsDone ==
    /\ mode = "verify" /\ pc = "download" /\ i > Len(files)
    /\ archives' = SelectSeq(files, IsArchive)
    /\ j' = 1
    /\ after_dl' = Present(fs, FsNames)
    /\ pc' = "verify"
    /\ UNCHANGED <<fs, mode, url, files, i, sha_ok, gpg_ok, results, ri, report,
                   verified_files, vote, exit_code, net, removed, log, pure_vars>>

\* lines 278-279
ArchiveMissing ==
    /\ mode = "verify" /\ pc = "verify" /\ j <= Len(archives)
    /\ ~Exists(fs, archives[j])
    /\ j' = j + 1
    /\ UNCHANGED <<fs, mode, pc, url, files, i, archives, after_dl, sha_ok, gpg_ok, results,
                   ri, report, verified_files, vote, exit_code, net, removed, log, pure_vars>>

\* glob.glob(f"{filename}.sha*"), by the number in the name
HashFiles(f, filename) == {n \in HashNums : Exists(f, ShaName(filename, n))}

\* what the digest command can do on the archive
ToolOutcomes(f, filename, n) ==
    IF f[filename].kind = "file"
    THEN {ToolPrinted(DigestOf(f[filename].data, n)), ToolFailed, ToolRaised}
    ELSE {ToolFailed, ToolRaised}

\* verify_hashes(filename): the dictionaries it can return
verify_hashes(f, filename) ==
    {[n \in HashFiles(f, filename) |->
         HashVerdict(t[n], f[ShaName(filename, n)].kind = "file",
                     TextOf(f[ShaName(filename, n)].data), n)] :
       t \in {u \in [HashFiles(f, filename) -> {ToolRaised, ToolFailed}
                        \cup {ToolPrinted(DigestOf(f[filename].data, n)) : n \in HashNums}] :
                 \A n \in HashFiles(f, filename) : u[n] \in ToolOutcomes(f, filename, n)}}

\* line 281
VerifyHashes ==
    /\ mode = "verify" /\ pc = "verify" /\ j <= Len(archives)
    /\ Exists(fs, archives[j])
    /\ sha_ok' \in verify_hashes(fs, archives[j])
    /\ pc' = "gpg"
    /\ UNCHANGED <<fs, mode, url, files, i, archives, j, after_dl, gpg_ok, results, ri,
                   report, verified_files, vote, exit_code, net, removed, log, pure_vars>>

\* mutant: an archive without a signature file is reported as a failure
GpgResultNoneAsFalse(asc_exists, outcome) ==
    IF asc_exists /\ outcome = "rc0" THEN "True" ELSE "False"

\* verify_gpg's return value: lines 99-100, 105-106, 146, 148
GpgResult(asc_exists, outcome) ==
    IF ~asc_exists THEN "None"
    ELSE IF outcome = "rc0" THEN "True"
    ELSE "False"

\* what gpg --verify can do: return 0, return non-zero, or fail to run
GpgOutcomes == {"rc0", "rc1", "raised"}

\* lines 98-126 and 146-148: up to the key-bundle fallback
VerifyGpg ==
    /\ mode = "verify" /\ pc = "gpg"
    /\ \E outcome \in GpgOutcomes :
          /\ gpg_ok' = GpgResult(Exists(fs, AscName(archives[j])), outcome)
          /\ pc' = IF /\ Exists(fs, AscName(archives[j]))
                      /\ outcome = "rc1"
                      /\ KeysUrl(url).derived
                   THEN "keys_backup" ELSE "extract"
    /\ UNCHANGED <<fs, mode, url, files, i, archives, j, after_dl, sha_ok, results, ri,
                   report, verified_files, vote, exit_code, net, removed, log, pure_vars>>

\* mutant: the fetch is started without renaming an existing KEYS
KeysBackupSkipped ==
    /\ mode = "verify" /\ pc = "keys_backup"
    /\ pc' = "keys_fetch"
    /\ UNCHANGED <<fs, mode, url, files, i, archives, j, after_dl, sha_ok, gpg_ok, results, ri,
                   report, verified_files, vote, exit_code, net, removed, log, pure_vars>>

\* lines 132-134
KeysBackup ==
    /\ mode = "verify" /\ pc = "keys_backup"
    /\ fs' = IF Exists(fs, "KEYS")
             THEN [fs EXCEPT !["KEYS.bak"] = fs["KEYS"], !["KEYS"] = Absent]
             ELSE fs
    /\ pc' = "keys_fetch"
    /\ UNCHANGED <<mode, url, files, i, archives, j, after_dl, sha_ok, gpg_ok, results, ri,
                   report, verified_files, vote, exit_code, net, removed, log, pure_vars>>

\* lines 136-142
KeysFetch ==
    /\ mode = "verify" /\ pc = "keys_fetch"
    /\ net' = net \cup {"KEYS"}
    /\ fs' \in download_file(fs, "KEYS")
    /\ pc' = "extract"
    /\ UNCHANGED <<mode, url, files, i, archives, j, after_dl, sha_ok, gpg_ok, results, ri,
                   report, verified_files, vote, exit_code, removed, log, pure_vars>>

\* lines 284-294
Extract ==
    /\ mode = "verify" /\ pc = "extract"
    /\ LET out == extract_and_check_license(fs, archives[j])
       IN  /\ fs' = out.fs
           /\ results' = Append(results,
                 [file |-> archives[j], hashes |-> sha_ok, gpg |-> gpg_ok,
                  license |-> out.ret.license, notice |-> out.ret.notice,
                  notice_current_year |-> out.ret.notice_current_year])
    /\ j' = j + 1
    /\ pc' = "verify"
    /\ UNCHANGED <<mode, url, files, i, archives, after_dl, sha_ok, gpg_ok, ri, report,
                   verified_files, vote, exit_code, net, removed, log, pure_vars>>

\* the loop at line 277 ends
ArchivesDone ==
    /\ mode = "verify" /\ pc = "verify" /\ j > Len(archives)
    /\ pc' = "report"
    /\ ri' = 1
    /\ UNCHANGED <<fs, mode, url, files, i, archives, j, after_dl, sha_ok, gpg_ok, results,
                   report, verified_files, vote, exit_code, net, removed, log, pure_vars>>

(***************************************************************************)
(* The report and the vote response.                                       *)
(***************************************************************************)
\* lines 310-312: truthy, False, anything else (None)
Mark(v) == IF v = "True" THEN "pass" ELSE IF v = "False" THEN "fail" ELSE "N/A"

\* lines 313-315: the line is printed only under a notice; "" is no line
YearMark(result) ==
    IF result.notice = "True" /\ result.notice_current_year # "None"
    THEN IF result.notice_current_year = "True" THEN "pass" ELSE "warn"
    ELSE ""

\* lines 301-315: an empty hashes stands for the single line "Hashes: N/A"
Marks(result) ==
    [file |-> result.file,
     hashes |-> [n \in DOMAIN result.hashes |-> IF result.hashes[n] THEN "pass" ELSE "fail"],
     gpg |-> Mark(result.gpg),
     license |-> Mark(result.license),
     notice |-> Mark(result.notice),
     year |-> YearMark(result)]

\* mutant: all() of an empty dictionary counts as a pass
IsVerifiedAllOfNone(result) ==
    /\ \A n \in DOMAIN result.hashes : result.hashes[n]
    /\ result.gpg = "True"

\* lines 318-319
IsVerified(result) ==
    /\ DOMAIN result.hashes # {}
    /\ \A n \in DOMAIN result.hashes : result.hashes[n]
    /\ result.gpg = "True"

InSeq(x, s) == \E n \in 1..Len(s) : s[n] = x

\* lines 329-343: one line per record whose file is in verified_files
VoteLine(result) ==
    [file |-> result.file,
     verifications |-> {"SHA" \o ToString(n) : n \in DOMAIN result.hashes}
                           \cup (IF result.gpg = "True" THEN {"GPG signature"} ELSE {})]

InVerified(result) == InSeq(result.file, verified_files)

VoteLines ==
    [n \in 1..Len(SelectSeq(results, InVerified)) |-> VoteLine(SelectSeq(results, InVerified)[n])]

\* lines 300-320, one record
ReportRecord ==
    /\ mode = "verify" /\ pc = "report" /\ ri <= Len(results)
    /\ report' = Append(report, Marks(results[ri]))
    /\ verified_files' = IF IsVerified(results[ri])
                         THEN Append(verified_files, results[ri].file)
                         ELSE verified_files
    /\ ri' = ri + 1
    /\ UNCHANGED <<fs, mode, pc, url, files, i, archives, j, after_dl, sha_ok, gpg_ok,
                   results, vote, exit_code, net, removed, log, pure_vars>>

\* lines 323-345, and main returns
VoteResponse ==
    /\ mode = "verify" /\ pc = "report" /\ ri > Len(results)
    /\ vote' = IF verified_files # <<>> THEN VoteLines ELSE <<>>
    /\ exit_code' = 0
    /\ pc' = "done" /\ mode' = "idle"
    /\ log' = Append(log, "verify")
    /\ UNCHANGED <<fs, url, files, i, archives, j, after_dl, sha_ok, gpg_ok, results, ri,
                   report, verified_files, net, removed, pure_vars>>

(***************************************************************************)
(* The program: runs of main, one after the other, on one working          *)
(* directory that is empty before the first.                               *)
(***************************************************************************)
NoDigest == [text |-> <<>>, hash_num |-> 0, tool |-> ToolRaised]
NoVerdict == [done |-> FALSE, matched |-> FALSE]
NoDerivation == [done |-> FALSE, res |-> NoKeysUrl]

RunInit ==
    /\ fs = EmptyDir
    /\ mode = "idle" /\ pc = "done"
    /\ url = <<>> /\ files = <<>> /\ i = 0 /\ archives = <<>> /\ j = 0 /\ after_dl = {}
    /\ sha_ok = <<>> /\ gpg_ok = "None" /\ results = <<>> /\ ri = 0
    /\ report = <<>> /\ verified_files = <<>> /\ vote = <<>>
    /\ exit_code = 0 /\ net = {} /\ removed = {} /\ log = <<>>

Init ==
    /\ RunInit
    /\ h_in = NoDigest /\ h_out = NoVerdict
    /\ u_in = <<>> /\ u_out = NoDerivation

Next ==
    \/ Usage
    \/ Cleanup
    \/ FetchListing
    \/ Download
    \/ DownloadsDone
    \/ ArchiveMissing
    \/ VerifyHashes
    \/ VerifyGpg
    \/ KeysBackup
    \/ KeysFetch
    \/ Extract
    \/ ArchivesDone
    \/ ReportRecord
    \/ VoteResponse

Spec == Init /\ [][Next]_vars

(***************************************************************************)
(* One digest comparison of verify_hashes on enumerated inputs: the text   *)
(* of the hash file, the number in its name, and what the digest command   *)
(* did.                                                                    *)
(***************************************************************************)
TextAlphabet == {"a", "B", ":", " "}
DigestAlphabet == {"a", "b"}
PureHashNums == {1, 8, 12}

\* texts long enough for the 40 characters of SHA1
LongTexts ==
    {s \o Rep("a", 40) : s \in SeqsUpTo(TextAlphabet, 2)} \cup {Rep("a", 39), Rep("B", 41)}

Texts == SeqsUpTo(TextAlphabet, MaxLen) \cup LongTexts

Digests(n) ==
    IF n = 1 THEN {Rep("a", 40), Rep("b", 40)}
    ELSE [1..ExpectedLength(n) -> DigestAlphabet]

ToolResults(n) == {ToolRaised, ToolFailed} \cup {ToolPrinted(d) : d \in Digests(n)}

InitHash ==
    /\ RunInit
    /\ \E n \in PureHashNums : \E t \in Texts : \E o \in ToolResults(n) :
          h_in = [text |-> t, hash_num |-> n, tool |-> o]
    /\ h_out = NoVerdict
    /\ u_in = <<>> /\ u_out = NoDerivation

\* lines 49-80 for one hash file that can be read
CheckDigest ==
    /\ ~h_out.done
    /\ h_out' = [done |-> TRUE,
                 matched |-> HashVerdict(h_in.tool, TRUE, h_in.text, h_in.hash_num)]
    /\ UNCHANGED <<run_vars, h_in, u_in, u_out>>

NextHash == CheckDigest

SpecHash == InitHash /\ [][NextHash]_vars

(***************************************************************************)
(* One key-bundle URL derivation on enumerated staging URLs: argv[1] as    *)
(* given, stripped by main and split by verify_gpg.                        *)
(***************************************************************************)
UrlTokens == {Slash, "dist", "dev", "incubator", "foo"}
\* a staging URL starts with a dist segment or without one
UrlHeads == {<<>>, <<"dist", Slash>>}

InitKeys ==
    /\ RunInit
    /\ h_in = NoDigest /\ h_out = NoVerdict
    /\ \E head \in UrlHeads : \E m \in 0..MaxUrlLen : \E tail \in [1..m -> UrlTokens] :
          u_in = head \o tail
    /\ u_out = NoDerivation

\* line 248, then lines 115-126 when gpg has failed
DeriveKeysUrl ==
    /\ ~u_out.done
    /\ u_out' = [done |-> TRUE, res |-> KeysUrl(RStrip(u_in))]
    /\ UNCHANGED <<run_vars, h_in, h_out, u_in>>

NextKeys == DeriveKeysUrl

SpecKeys == InitKeys /\ [][NextKeys]_vars

(***************************************************************************)
(* Properties of the digest comparison (SpecHash).                         *)
(***************************************************************************)
Printed == h_out.done /\ ~h_in.tool.raised /\ h_in.tool.rc = 0

\* the part of the sidecar text after its first colon, or all of it
Payload(text) ==
    IF \E p \in 1..Len(text) : text[p] = ":"
    THEN LET c == CHOOSE p \in 1..Len(text) :
                      text[p] = ":" /\ \A q \in 1..(p - 1) : text[q] # ":"
         IN  [p \in 1..(Len(text) - c) |-> text[c + p]]
    ELSE text

\* a run of consecutive hexadecimal characters starts at p and is at least n long
RunOf(s, p, n) ==
    /\ p + n - 1 <= Len(s)
    /\ \A q \in p..(p + n - 1) : IsHex(s[q])
    /\ p = 1 \/ ~IsHex(s[p - 1])

HasRun(s, n) == \E p \in 1..Len(s) : RunOf(s, p, n)

FirstRun(s, n) ==
    LET p == CHOOSE q \in 1..Len(s) : RunOf(s, q, n) /\ \A r \in 1..(q - 1) : ~RunOf(s, r, n)
    IN  [q \in 1..n |-> LowerChar(s[p + q - 1])]

\* the first n hexadecimal characters of s, whatever stands between them
RECURSIVE FirstHex(_, _)
FirstHex(s, n) ==
    IF n = 0 \/ s = <<>> THEN <<>>
    ELSE IF IsHex(Head(s)) THEN <<LowerChar(Head(s))>> \o FirstHex(Tail(s), n - 1)
    ELSE FirstHex(Tail(s), n)

\* C2 as stated: matched is true exactly when the lower-cased actual digest
\* equals the first run of consecutive hexadecimal characters of the payload
\* that is at least L long, cut to L characters and lower-cased; no such
\* run, no match.
C2_FirstRunDecides ==
    Printed =>
        (h_out.matched <=>
            /\ HasRun(Payload(h_in.text), ExpectedLength(h_in.hash_num))
            /\ Lower(h_in.tool.digest)
                   = FirstRun(Payload(h_in.text), ExpectedLength(h_in.hash_num)))

\* C2 amended: matched is true exactly when the payload holds at least L
\* hexadecimal characters and the lower-cased actual digest equals the first
\* L of them, lower-cased, the characters between them skipped (L = 40 when
\* N = 1, otherwise N/4); a digest command that fails gives matched = false.
C2_FirstHexDecides ==
    /\ Printed =>
          (h_out.matched <=>
              /\ Len(FirstHex(Payload(h_in.text), ExpectedLength(h_in.hash_num)))
                     = ExpectedLength(h_in.hash_num)
              /\ Lower(h_in.tool.digest)
                     = FirstHex(Payload(h_in.text), ExpectedLength(h_in.hash_num)))
    /\ h_out.done /\ ~Printed => ~h_out.matched

\* a match on a SHA1 sidecar whose digest follows a colon, and one on a
\* digest written in groups
C2_Witness ==
    /\ Printed /\ h_out.matched
    /\ \/ h_in.hash_num = 1 /\ Len(h_in.text) > 40
       \/ /\ h_in.hash_num = 12
          /\ ~HasRun(Payload(h_in.text), 3)
          /\ \E p \in 1..Len(h_in.text) : h_in.text[p] = ":"

(***************************************************************************)
(* Properties of the key-bundle URL derivation (SpecKeys).                 *)
(***************************************************************************)
\* the segments of a staging URL, its trailing slashes dropped
Segments(u) == Split(RStrip(u))

IsDev(parts, k) == k \in 1..Len(parts) /\ parts[k] = <<"dev">>

FirstDev(parts, k) == IsDev(parts, k) /\ \A m \in 1..(k - 1) : ~IsDev(parts, m)

\* dev at k is followed by a project segment: the segment after it, or the
\* one after incubator
HasProject(parts, k) ==
    /\ k + 1 <= Len(parts)
    /\ parts[k + 1] = <<"incubator">> => k + 2 <= Len(parts)

BundleUrl(parts, k) ==
    IF parts[k + 1] = <<"incubator">> /\ k + 2 <= Len(parts)
    THEN <<"https:", Slash, Slash, "downloads.apache.org", Slash, "incubator", Slash>>
             \o parts[k + 2] \o <<Slash, "KEYS">>
    ELSE <<"https:", Slash, Slash, "downloads.apache.org", Slash>>
             \o parts[k + 1] \o <<Slash, "KEYS">>

\* C4 as stated: every staging URL that has a dev segment followed by a
\* project segment, with or without a trailing slash, gets the bundle URL
\* under incubator/<P> when incubator follows dev, and under <P> otherwise.
C4_DevDecides ==
    u_out.done =>
        \A k \in 1..Len(Segments(u_in)) :
            FirstDev(Segments(u_in), k) /\ HasProject(Segments(u_in), k) =>
                /\ u_out.res.derived
                /\ u_out.res.keys_url = BundleUrl(Segments(u_in), k)

\* C4 amended: a bundle URL is derived exactly when the staging URL, its
\* trailing slashes dropped and split on "/", has a dist segment and a dev
\* segment and its first dev segment is not the last one; it is then under
\* incubator/<P>, P the segment after incubator, when incubator follows that
\* dev and is itself followed by a segment, and under <P>, P the segment
\* right after dev, otherwise.
C4_DistAndDevDecide ==
    u_out.done =>
        /\ u_out.res.derived <=>
              /\ \E k \in 1..Len(Segments(u_in)) : Segments(u_in)[k] = <<"dist">>
              /\ \E k \in 1..(Len(Segments(u_in)) - 1) : FirstDev(Segments(u_in), k)
        /\ \A k \in 1..(Len(Segments(u_in)) - 1) :
              u_out.res.derived /\ FirstDev(Segments(u_in), k) =>
                  u_out.res.keys_url = BundleUrl(Segments(u_in), k)

\* an incubator staging URL with a trailing slash got its bundle URL
C4_Witness ==
    /\ u_out.done /\ u_out.res.derived
    /\ u_in # <<>> /\ u_in[Len(u_in)] = Slash
    /\ \E k \in 1..Len(Segments(u_in)) :
          /\ FirstDev(Segments(u_in), k)
          /\ k + 2 <= Len(Segments(u_in))
          /\ Segments(u_in)[k + 1] = <<"incubator">>
          /\ Segments(u_in)[k + 2] = <<"foo">>
    /\ u_out.res.keys_url =
           <<"https:", Slash, Slash, "downloads.apache.org", Slash, "incubator", Slash,
             "foo", Slash, "KEYS">>

(***************************************************************************)
(* Properties of a run of main (Spec).                                     *)
(***************************************************************************)
\* the record's report lines show at least one digest, every digest passed,
\* and the signature passed
AllPassed(marks) ==
    /\ Cardinality(DOMAIN marks.hashes) >= 1
    /\ {n \in DOMAIN marks.hashes : marks.hashes[n] = "pass"} = DOMAIN marks.hashes
    /\ marks.gpg = "pass"

FilesOf(s) == [n \in 1..Len(s) |-> s[n].file]

Named(s) == {s[n].file : n \in 1..Len(s)}

\* C1: the verified files are, in order, the files of the records reported
\* with at least one digest, every digest matched and the signature passed,
\* and no others; the vote response names exactly the verified files.
C1_VerifiedIffAllPassed ==
    /\ verified_files = FilesOf(SelectSeq(report, AllPassed))
    /\ pc = "done" => Named(vote) = {verified_files[n] : n \in 1..Len(verified_files)}

\* a run ended with an archive that has two digests, both matched, and a
\* good signature, in the verified files and named in the vote
C1_Witness ==
    /\ pc = "done" /\ exit_code = 0
    /\ \E n \in 1..Len(report) :
          /\ AllPassed(report[n])
          /\ Cardinality(DOMAIN report[n].hashes) = 2
          /\ report[n].file \in Named(vote)
          /\ verified_files = <<report[n].file>>

\* C3: verify_gpg returns None exactly when the archive's .asc file is absent
\* at the check and True or False when it is present, gpg failing to run
\* included; a record whose signature outcome is None adds nothing to the
\* verified files.
C3_NotApplicableIffNoAsc ==
    [][/\ pc = "gpg" /\ pc' # "gpg" =>
            /\ gpg_ok' = "None" <=> ~Exists(fs, archives[j] \o ".asc")
            /\ Exists(fs, archives[j] \o ".asc") => gpg_ok' \in {"True", "False"}
       /\ pc = "report" /\ ri' = ri + 1 /\ results[ri].gpg = "None" =>
            /\ report'[ri].gpg = "N/A"
            /\ verified_files' = verified_files]_vars

\* a run reported one archive without a signature file, its digests all
\* matched, and left it out of the verified files
C3_Witness ==
    /\ pc = "done"
    /\ \E n \in 1..Len(report) :
          /\ report[n].gpg = "N/A"
          /\ DOMAIN report[n].hashes # {}
          /\ \A m \in DOMAIN report[n].hashes : report[n].hashes[m] = "pass"
          /\ report[n].file \notin Named(vote)
          /\ ~Exists(fs, report[n].file \o ".asc")

LastRun == IF log = <<>> THEN "" ELSE log[Len(log)]

\* a cleanup run: the only step that adds "cleanup" to the log
CleanupRuns == log' = Append(log, "cleanup")

\* C5 as stated: a cleanup that follows a cleanup removes nothing, raises no
\* error and leaves the working directory as it found it, and so does a
\* cleanup of an empty working directory.
C5_CleanupIdempotent ==
    [][CleanupRuns /\ (LastRun = "cleanup" \/ fs = EmptyDir) =>
           /\ removed' = {}
           /\ exit_code' = 0
           /\ fs' = fs]_vars

\* C6 as stated: after one verification run from an empty working directory
\* and one cleanup, the working directory is empty again.
C6_EmptyAfterCleanup ==
    pc = "done" /\ log = <<"verify", "cleanup">> => fs = EmptyDir

Sidecars == ShaNames \cup AscNames

\* C7 as stated: in a verification run a listed file that exists when its
\* turn to download comes is not requested and is left as it is, and no step
\* of the run changes or removes an archive or a sidecar that is present.
C7_LocalFilesUntouched ==
    [][mode = "verify" =>
           /\ pc = "download" /\ i <= Len(files) /\ Exists(fs, files[i]) =>
                 net' = net /\ fs' = fs
           /\ \A name \in ArchiveNames \cup Sidecars :
                 Exists(fs, name) => fs'[name] = fs[name]]_vars

PresentAfterDownload(name) == name \in after_dl

\* C8 as stated: the records are, in listing order, one for each listed
\* archive that is present after the download phase, and none for an archive
\* whose download failed and that was not present.
C8_OneRecordPerPresentArchive ==
    pc \in {"report", "done"} =>
        FilesOf(results) = SelectSeq(archives, PresentAfterDownload)

\* C9 as stated: a run ends with a non-zero status only before any network
\* activity; a listing that cannot be fetched and a listing without files
\* end it with status zero.
C9_NonZeroOnlyBeforeNetwork ==
    pc = "done" /\ exit_code # 0 => net = {}

\* C9 amended: the process exits with a non-zero status for a wrong argument
\* shape, before any network activity, and also when the directory listing
\* cannot be fetched or names no release file; a verification run that found
\* files in the listing ends with status zero whatever download, digest,
\* signature or extraction failures it met.
C9_ExitStatus ==
    [][/\ Usage => exit_code' # 0 /\ net' = {} /\ fs' = fs
       /\ FetchListing =>
             /\ net' = {"LISTING"}
             /\ files' = <<>> <=> pc' = "done"
             /\ pc' = "done" => exit_code' # 0
       /\ mode = "verify" /\ pc' = "done" => exit_code' = 0]_vars

\* one run ended with status zero after a digest, the signature and the
\* extraction of an archive had failed, and a later one ended with a non-zero
\* status after asking for the listing
C9_Witness ==
    /\ pc = "done" /\ exit_code # 0 /\ net = {"LISTING"}
    /\ LastRun = "verify"
    /\ \E name \in ArchiveNames :
          /\ Exists(fs, name \o ".sha8") /\ Exists(fs, name \o ".asc")
          /\ fs[name].kind = "file" /\ ~TarOf(fs[name].data).ok

\* extract_and_check_license raises on this archive
ExtractionFails(f, archive) ==
    \/ f[archive].kind # "file"
    \/ ~TarOf(f[archive].data).ok
    \/ ~ExtractAll(f, TarOf(f[archive].data), 1).ok

HasNoMembers(f, archive) ==
    /\ ~ExtractionFails(f, archive)
    /\ TarOf(f[archive].data).members = <<>>

Extracts == pc = "extract" /\ pc' = "verify"

Last(s) == s[Len(s)]

\* C10 as stated: when the extraction of an archive fails, and when the
\* archive has no members, its record has license, notice and current-year
\* indeterminate, reported as not available; the run goes on to the next
\* archive.
C10_FailureIsIndeterminate ==
    [][Extracts /\ (ExtractionFails(fs, archives[j]) \/ HasNoMembers(fs, archives[j])) =>
           /\ Last(results').license = "None"
           /\ Last(results').notice = "None"
           /\ Last(results').notice_current_year = "None"
           /\ j' = j + 1]_vars

\* C10 amended: when the extraction of an archive fails, its record has
\* license, notice and current-year all False, reported as absent with no
\* current-year line; only an archive that opens and has no members gives the
\* indeterminate record reported as not available; either way the earlier
\* records stay as they are and the run goes on to the next archive.
C10_FailureIsAbsent ==
    [][/\ Extracts /\ ExtractionFails(fs, archives[j]) =>
             /\ Last(results').license = "False"
             /\ Last(results').notice = "False"
             /\ Last(results').notice_current_year = "False"
             /\ Marks(Last(results')).license = "fail"
             /\ Marks(Last(results')).notice = "fail"
             /\ Marks(Last(results')).year = ""
       /\ Extracts /\ HasNoMembers(fs, archives[j]) =>
             /\ Last(results').license = "None"
             /\ Last(results').notice = "None"
             /\ Last(results').notice_current_year = "None"
             /\ Marks(Last(results')).license = "N/A"
             /\ Marks(Last(results')).notice = "N/A"
       /\ Extracts =>
             /\ SubSeq(results', 1, Len(results)) = results
             /\ Len(results') = Len(results) + 1
             /\ j' = j + 1]_vars

\* a run reported license and notice of an archive with a path-traversal
\* member as absent, and went on to report the archive listed after it
C10_Witness ==
    /\ pc = "done" /\ LastRun = "verify"
    /\ \E n \in 1..Len(report) :
          /\ fs[report[n].file].kind = "file"
          /\ fs[report[n].file].data = "T_trav"
          /\ report[n].license = "fail" /\ report[n].notice = "fail"
          /\ report[n].year = ""
          /\ n < Len(report)

\* the fallback of verify_gpg takes its first step, and its fetch step
FallbackStarts == pc = "keys_backup" /\ pc' # "keys_backup"
FallbackFetches == pc = "keys_fetch" /\ pc' # "keys_fetch"

\* C11: when KEYS exists as the key-bundle fallback starts, it is renamed to
\* KEYS.bak before the fetch: the fetch finds no KEYS to overwrite, writes
\* nothing but KEYS and leaves KEYS.bak as the rename made it; verify_gpg's
\* result is False throughout the fallback, whether the fetch leaves a KEYS
\* file or not.
C11_KeysRenamedBeforeFetch ==
    [][/\ FallbackStarts =>
             /\ Exists(fs, "KEYS") =>
                   /\ fs'["KEYS.bak"] = fs["KEYS"]
                   /\ ~Exists(fs', "KEYS")
                   /\ \A name \in FsNames \ {"KEYS", "KEYS.bak"} : fs'[name] = fs[name]
             /\ ~Exists(fs, "KEYS") => fs' = fs
             /\ pc' = "keys_fetch"
             /\ gpg_ok = "False" /\ gpg_ok' = "False"
       /\ FallbackFetches =>
             /\ ~Exists(fs, "KEYS")
             /\ \A name \in FsNames \ {"KEYS"} : fs'[name] = fs[name]
             /\ net' = net \cup {"KEYS"}
             /\ pc' = "extract"
             /\ gpg_ok = "False" /\ gpg_ok' = "False"
       /\ pc = "extract" /\ pc' = "verify" => Last(results').gpg = gpg_ok]_vars

\* a fallback that found a KEYS file has ended: the old bundle is in
\* KEYS.bak, a newly fetched one in KEYS, and the signature result is False
C11_Witness ==
    /\ pc = "extract" /\ gpg_ok = "False"
    /\ "KEYS" \in net
    /\ fs["KEYS.bak"].kind = "file" /\ fs["KEYS"].kind = "file"
    /\ fs["KEYS.bak"].data = "K1" /\ fs["KEYS"].data = "K2"

====
